---------------------------- MODULE Spec2Model ----------------------------
(***************************************************************************)
(* Model of package agar's PCM fixture helpers: the white-noise            *)
(* synthesizer (GenerateWhiteNoise), the exact and tolerant comparators    *)
(* (CompareLosslessSamples, CompareLossySamples), the diagnostic reporter  *)
(* (ShowDiffs) and MonoToStereo.                                           *)
(*                                                                         *)
(* Go's uint64 generator state is a function 0..63 -> {0,1} (bit 0 is the  *)
(* least significant bit): TLC's integers are 32 bits wide, so 64-bit      *)
(* shifts, xors, the modulo and the wrapping subtraction are done on bits. *)
(* Byte buffers are sequences over 0..255; Go's 0-based offset o is        *)
(* element o+1.                                                            *)
(***************************************************************************)
EXTENDS Integers, Sequences, FiniteSets, TLC

VARIABLES
    gen,    \* GenerateWhiteNoise: each caller's activation (position and locals)
    pc,     \* comparator / MonoToStereo call: "none", "ready" or "done"
    args,   \* that call's arguments
    t,      \* that call's *testing.T: the Errorf and Logf records it received
    out     \* that call's locals at return and its return value

vars == <<gen, pc, args, t, out>>

-----------------------------------------------------------------------------
(* Bounds of the model.                                                    *)

MaxRate == 3
MaxChannels == 2
MaxDuration == 2
MaxParSamples == 2
MaxLen == 4
MaxShown == 2
MaxSamples == 2
MaxBlocks == 2
MaxLarge == 3
MaxShort == 3
MaxMonoLen == 8

-----------------------------------------------------------------------------
(* Constants of the program.                                               *)

BitDepth4 == 4
BitDepth8 == 8
BitDepth12 == 12
BitDepth16 == 16
BitDepth20 == 20
BitDepth24 == 24
BitDepth32 == 32

bitsPerByte == 8

xorshiftSeed == 305419896
xorshiftShiftA == 13
xorshiftShiftB == 7
xorshiftShiftC == 17

EnumeratedDepths ==
    {BitDepth4, BitDepth8, BitDepth12, BitDepth16, BitDepth20, BitDepth24, BitDepth32}

Min(a, b) == IF a < b THEN a ELSE b

-----------------------------------------------------------------------------
(* uint64 arithmetic on bits: a uint64 is a sequence of 64 bits, the least  *)
(* significant first (bit i is element i+1).                               *)

\* The sequence f as a tuple of its 64 elements.
Bits64(f) == SubSeq(f, 1, 64)

Zero64 == Bits64([i \in 1..64 |-> 0])

\* The uint64 holding n, for 0 <= n < 2^31.
U64(n) == Bits64([i \in 1..64 |-> IF i <= 31 THEN (n \div (2 ^ (i - 1))) % 2 ELSE 0])

\* x << s and x >> s
Shl(x, s) == SubSeq(Zero64, 1, s) \o SubSeq(x, 1, 64 - s)

Shr(x, s) == SubSeq(x, s + 1, 64) \o SubSeq(Zero64, 1, s)

\* a ^ b
Xor(a, b) == Bits64([i \in 1..64 |-> (a[i] + b[i]) % 2])

\* x % m for a uint64 x and 0 < m < 2^31, most significant bit first; the
\* doubling is written so that no intermediate value leaves 32 bits. st is
\* the next bit to read and the remainder of the bits above it.
RECURSIVE ModFrom(_, _, _)
ModFrom(x, m, st) ==
    IF st.i < 1 THEN st.r
    ELSE LET r == st.r
             d == IF r >= m - r THEN r - (m - r) ELSE r + r
             e == IF d + x[st.i] = m THEN 0 ELSE d + x[st.i]
         IN  ModFrom(x, m, [i |-> st.i - 1, r |-> e])

Mod64(x, m) == ModFrom(x, m, [i |-> 64, r |-> 0])

\* ~x
Not64(x) == Bits64([i \in 1..64 |-> 1 - x[i]])

\* uint64(a) - uint64(b) for 0 <= a, b < 2^31. The subtraction wraps modulo
\* 2^64: for a < b the result is 2^64 - (b - a), whose bits are the
\* complement of those of b - a - 1.
Sub64(a, b) == IF a >= b THEN U64(a - b) ELSE Not64(U64(b - a - 1))

\* The unsigned value of bits 0..w-1 of x (w <= 31).
RECURSIVE LowBits(_, _)
LowBits(x, w) == IF w = 0 THEN 0 ELSE x[w] * (2 ^ (w - 1)) + LowBits(x, w - 1)

\* Go's intW(x) of a uint64 x: the low w bits, read as two's complement.
SignedLow(x, w) ==
    LET u == LowBits(x, w - 1)
        h == 2 ^ (w - 2)
    IN  IF x[w] = 1 THEN (u - h) - h ELSE u

-----------------------------------------------------------------------------
(* PCMBytesPerSample and GenerateWhiteNoise.                               *)

PCMBytesPerSampleFallback(bitDepth) == bitDepth \div bitsPerByte

PCMBytesPerSampleCeil(bitDepth) == (bitDepth + bitsPerByte - 1) \div bitsPerByte

PCMBytesPerSample(bitDepth) ==
    CASE bitDepth \in {BitDepth4, BitDepth8} -> 1
      [] bitDepth \in {BitDepth12, BitDepth16} -> 2
      [] bitDepth \in {BitDepth20, BitDepth24} -> 3
      [] bitDepth = BitDepth32 -> 4
      [] OTHER -> bitDepth \div bitsPerByte

\* The recurrence applied twice.
XorshiftSkip(seed) ==
    LET a == Xor(seed, Shl(seed, xorshiftShiftA))
        b == Xor(a, Shr(a, xorshiftShiftB))
        c == Xor(b, Shl(b, xorshiftShiftC))
        d == Xor(c, Shl(c, xorshiftShiftA))
        e == Xor(d, Shr(d, xorshiftShiftB))
    IN  Xor(e, Shl(e, xorshiftShiftC))

\* seed ^= seed << 13; seed ^= seed >> 7; seed ^= seed << 17
XorshiftNext(seed) ==
    LET a == Xor(seed, Shl(seed, xorshiftShiftA))
        b == Xor(a, Shr(a, xorshiftShiftB))
    IN  Xor(b, Shl(b, xorshiftShiftC))

\* The modulus, the subtracted offset and the width of the narrowing
\* conversion (int8, int16, int32) of each case of the switch.
GenModulus(bitDepth) ==
    CASE bitDepth = BitDepth4 -> 14
      [] bitDepth = BitDepth8 -> 240
      [] bitDepth = BitDepth12 -> 4000
      [] bitDepth = BitDepth16 -> 60000
      [] bitDepth = BitDepth20 -> 1000000
      [] bitDepth = BitDepth24 -> 14000000
      [] bitDepth = BitDepth32 -> 1800000000

GenOffset(bitDepth) ==
    CASE bitDepth = BitDepth4 -> 7
      [] bitDepth = BitDepth8 -> 120
      [] bitDepth = BitDepth12 -> 2000
      [] bitDepth = BitDepth16 -> 30000
      [] bitDepth = BitDepth20 -> 500000
      [] bitDepth = BitDepth24 -> 7000000
      [] bitDepth = BitDepth32 -> 900000000

GenIntWidth(bitDepth) ==
    CASE bitDepth \in {BitDepth4, BitDepth8} -> 8
      [] bitDepth \in {BitDepth12, BitDepth16} -> 16
      [] bitDepth \in {BitDepth20, BitDepth24, BitDepth32} -> 32

\* intW(x): Go's narrowing conversion of a uint64 to a signed integer.
NarrowToInt(x, w) == SignedLow(x, w)

\* val := intW((seed % M) - off), the subtraction being uint64's.
SampleValue(bitDepth, seed) ==
    NarrowToInt(Sub64(Mod64(seed, GenModulus(bitDepth)), GenOffset(bitDepth)),
                GenIntWidth(bitDepth))

\* byte(v) of a signed integer v.
ByteOf(v) == v % 256

PutUint16BigEndian(val) == <<ByteOf(val \div (2 ^ bitsPerByte)), ByteOf(val)>>

\* binary.LittleEndian.PutUint16(b, uint16(val)) for an int16 val.
PutUint16(val) == <<ByteOf(val), ByteOf(val \div (2 ^ bitsPerByte))>>

\* buf[o] = byte(val); buf[o+1] = byte(val >> 8); buf[o+2] = byte(val >> 16)
Put3Bytes(val) ==
    <<ByteOf(val), ByteOf(val \div (2 ^ bitsPerByte)),
      ByteOf(val \div (2 ^ (2 * bitsPerByte)))>>

\* binary.LittleEndian.PutUint32(b, uint32(val)) for an int32 val: byte k of
\* uint32(val) is floor(val / 256^k) mod 256.
PutUint32(val) ==
    <<ByteOf(val), ByteOf(val \div 256), ByteOf(val \div 65536),
      ByteOf(val \div 16777216)>>

\* The bytes one iteration of the loop stores at offset; none in the default
\* case of the switch.
SampleBytes(bitDepth, seed) ==
    IF bitDepth \notin EnumeratedDepths THEN <<>>
    ELSE LET val == SampleValue(bitDepth, seed)
         IN  CASE bitDepth \in {BitDepth4, BitDepth8} -> <<ByteOf(val)>>
               [] bitDepth \in {BitDepth12, BitDepth16} -> PutUint16(val)
               [] bitDepth \in {BitDepth20, BitDepth24} -> Put3Bytes(val)
               [] bitDepth = BitDepth32 -> PutUint32(val)

\* make([]byte, n)
MakeBytes(n) == SubSeq([i \in 1..n |-> 0], 1, n)

\* The stores of one iteration land inside buf (otherwise Go panics).
InBounds(buf, offset, bytes) == bytes = <<>> \/ offset + Len(bytes) <= Len(buf)

Store(buf, offset, bytes) ==
    SubSeq(buf, 1, offset) \o bytes \o SubSeq(buf, offset + Len(bytes) + 1, Len(buf))

\* uint64(0x12345678)
SeedBits == U64(xorshiftSeed)

StaleSeed(g) == g.seed

\* seed := xorshiftSeed: a local of the call, whatever activation g came before.
NewSeed(g) == SeedBits

GenBitDepths == EnumeratedDepths

SeqParams ==
    [sampleRate : 0..MaxRate, bitDepth : GenBitDepths,
     channels : 0..MaxChannels, durationSec : 0..MaxDuration]

ParParams ==
    {p \in [sampleRate : 1..MaxRate, bitDepth : GenBitDepths,
            channels : 1..MaxChannels, durationSec : 1..MaxDuration] :
        p.sampleRate * p.durationSec * p.channels <= MaxParSamples}

Callers == {"g1", "g2"}

IdleGen ==
    [pc |-> "idle", sampleRate |-> 0, bitDepth |-> 0, channels |-> 0,
     durationSec |-> 0, numSamples |-> 0, bytesPerSample |-> 0,
     buf |-> <<>>, seed |-> SeedBits, sampleIdx |-> 0]

\* Entry of GenerateWhiteNoise up to the loop.
GenCall(c, params) ==
    /\ gen[c].pc \in {"idle", "done"}
    /\ \E p \in params :
         LET numSamples == p.sampleRate * p.durationSec * p.channels
             bytesPerSample == PCMBytesPerSample(p.bitDepth)
         IN  gen' = [gen EXCEPT ![c] =
                        [pc |-> "loop", sampleRate |-> p.sampleRate,
                         bitDepth |-> p.bitDepth, channels |-> p.channels,
                         durationSec |-> p.durationSec,
                         numSamples |-> numSamples,
                         bytesPerSample |-> bytesPerSample,
                         buf |-> MakeBytes(numSamples * bytesPerSample),
                         seed |-> NewSeed(gen[c]), sampleIdx |-> 0]]
    /\ UNCHANGED <<pc, args, t, out>>

\* One iteration of the loop over sampleIdx.
GenStep(c) ==
    /\ gen[c].pc = "loop"
    /\ gen[c].sampleIdx < gen[c].numSamples
    /\ LET g == gen[c]
           seed == XorshiftNext(g.seed)
           offset == g.sampleIdx * g.bytesPerSample
           bytes == SampleBytes(g.bitDepth, seed)
       IN  gen' = [gen EXCEPT ![c] =
                      IF InBounds(g.buf, offset, bytes)
                      THEN [g EXCEPT !.seed = seed,
                                     !.buf = Store(g.buf, offset, bytes),
                                     !.sampleIdx = g.sampleIdx + 1]
                      ELSE [g EXCEPT !.seed = seed, !.pc = "panic"]]
    /\ UNCHANGED <<pc, args, t, out>>

\* return buf
GenReturn(c) ==
    /\ gen[c].pc = "loop"
    /\ gen[c].sampleIdx = gen[c].numSamples
    /\ gen' = [gen EXCEPT ![c].pc = "done"]
    /\ UNCHANGED <<pc, args, t, out>>

NoCall == /\ pc = "none" /\ args = <<>> /\ t = <<>> /\ out = <<>>

\* One caller, any number of calls one after the other.
InitGen == gen = [c \in {"g1"} |-> IdleGen] /\ NoCall

NextGen == GenCall("g1", SeqParams) \/ GenStep("g1") \/ GenReturn("g1")

SpecGen == InitGen /\ [][NextGen]_vars

\* Two callers (goroutines), their calls interleaved step by step.
InitGenPar == gen = [c \in Callers |-> IdleGen] /\ NoCall

NextGenPar == \E c \in Callers : GenCall(c, ParParams) \/ GenStep(c) \/ GenReturn(c)

SpecGenPar == InitGenPar /\ [][NextGenPar]_vars


-----------------------------------------------------------------------------
(* Properties of GenerateWhiteNoise.                                       *)

\* The generator states of sample positions 0..n-1: st.states[k+1] is the
\* state after k+1 advances from the seed.
RECURSIVE StatesFrom(_, _)
StatesFrom(n, st) ==
    IF Len(st.states) = n THEN st.states
    ELSE LET x == XorshiftNext(st.last)
         IN  StatesFrom(n, [states |-> Append(st.states, x), last |-> x])

GeneratorStates(n) == StatesFrom(n, [states |-> <<>>, last |-> SeedBits])

\* A little-endian two's-complement integer of Len(bytes) >= 1 bytes, sign
\* extended.
RECURSIVE DecodeUnsignedLE(_)
DecodeUnsignedLE(bytes) ==
    IF bytes = <<>> THEN 0 ELSE Head(bytes) + 256 * DecodeUnsignedLE(Tail(bytes))

DecodeSignedLE(bytes) ==
    LET n == Len(bytes)
        top == bytes[n]
        low == DecodeUnsignedLE(SubSeq(bytes, 1, n - 1))
    IN  low + (IF top >= 128 THEN top - 256 ELSE top) * (256 ^ (n - 1))

\* The sample at position k of a buffer of b-byte samples.
SampleAt(buf, k, b) == SubSeq(buf, k * b + 1, (k + 1) * b)

StatedBytesPerSample(bitDepth) ==
    CASE bitDepth = 4 -> 1 [] bitDepth = 8 -> 1 [] bitDepth = 12 -> 2
      [] bitDepth = 16 -> 2 [] bitDepth = 20 -> 3 [] bitDepth = 24 -> 3
      [] bitDepth = 32 -> 4

StatedModulus(bitDepth) ==
    CASE bitDepth = 4 -> 14 [] bitDepth = 8 -> 240 [] bitDepth = 12 -> 4000
      [] bitDepth = 16 -> 60000 [] bitDepth = 20 -> 1000000
      [] bitDepth = 24 -> 14000000 [] bitDepth = 32 -> 1800000000

Active(g) == g.pc \in {"loop", "done"}

\* Generator states at the edges of each depth's range and of the 64 bits:
\* those whose residue is 0, M/2 - 1, M/2 or M - 1, and their complements.
EdgeStates ==
    UNION {{U64(k), Not64(U64(k))} :
              k \in UNION {{StatedModulus(d) - 1, StatedModulus(d),
                            StatedModulus(d) \div 2,
                            (StatedModulus(d) \div 2) - 1} : d \in EnumeratedDepths}}

\* The bytes stored for every edge state decode to (state mod M) - M/2.
EdgeStatesDecode ==
    \A x \in EdgeStates : \A d \in EnumeratedDepths :
        DecodeSignedLE(SampleBytes(d, x))
            = Mod64(x, StatedModulus(d)) - (StatedModulus(d) \div 2)

\* C7: at every enumerated bit depth, every sample position written so far
\* holds, decoded as a sign-extended little-endian integer, exactly
\* (state mod M) - M/2 for the generator state of that position and the
\* depth's modulus M, and so lies in [-M/2, M/2 - 1].
C7_SampleIsStateModMinusHalf ==
    /\ EdgeStatesDecode
    /\ \A c \in DOMAIN gen :
           LET g == gen[c]
               M == StatedModulus(g.bitDepth)
               b == StatedBytesPerSample(g.bitDepth)
               sts == GeneratorStates(g.sampleIdx)
           IN  Active(g) =>
                 \A k \in 0..(g.sampleIdx - 1) :
                     LET v == DecodeSignedLE(SampleAt(g.buf, k, b))
                     IN  /\ v = Mod64(sts[k + 1], M) - (M \div 2)
                         /\ v >= 0 - (M \div 2)
                         /\ v <= (M \div 2) - 1

\* A finished 32-bit buffer holding a negative and a non-negative sample.
C7_Witness ==
    \E c \in DOMAIN gen :
        LET g == gen[c]
        IN  /\ g.pc = "done" /\ g.bitDepth = 32 /\ g.numSamples >= 2
            /\ \E j, k \in 0..(g.numSamples - 1) :
                   /\ DecodeSignedLE(SampleAt(g.buf, j, 4)) < 0
                   /\ DecodeSignedLE(SampleAt(g.buf, k, 4)) >= 0

\* C8: the buffer has sampleRate * durationSec * channels *
\* PCMBytesPerSample(bitDepth) bytes, with the stated bytes per sample, no
\* store leaves it, and the last sample's highest byte is its last byte.
C8_BufferLength ==
    \A c \in DOMAIN gen :
        LET g == gen[c]
            b == StatedBytesPerSample(g.bitDepth)
        IN  /\ g.pc # "panic"
            /\ Active(g) =>
                 /\ PCMBytesPerSample(g.bitDepth) = b
                 /\ Len(g.buf) = g.sampleRate * g.durationSec * g.channels * b
            /\ (g.pc = "done" /\ g.numSamples > 0) =>
                 (g.numSamples - 1) * g.bytesPerSample
                     + Len(SampleBytes(g.bitDepth, g.seed)) - 1 = Len(g.buf) - 1

\* A finished 20-bit buffer of several samples, and a finished empty one.
C8_Witness ==
    \E c \in DOMAIN gen :
        LET g == gen[c]
        IN  /\ g.pc = "done" /\ g.bitDepth = 20
            /\ g.sampleRate = MaxRate /\ g.channels = MaxChannels
            /\ g.durationSec = MaxDuration
            /\ Len(g.buf) = 3 * MaxRate * MaxChannels * MaxDuration

GenParamsOf(g) == <<g.sampleRate, g.bitDepth, g.channels, g.durationSec>>

\* C9: two finished calls with the same parameters hold byte-identical
\* buffers, whatever calls either caller made before and however the two
\* were interleaved; every call enters its loop with the seed 0x12345678.
C9_Deterministic ==
    /\ \A c \in DOMAIN gen :
           (gen[c].pc = "loop" /\ gen[c].sampleIdx = 0) =>
               gen[c].seed = SeedBits
    /\ \A c, d \in DOMAIN gen :
           (gen[c].pc = "done" /\ gen[d].pc = "done"
               /\ GenParamsOf(gen[c]) = GenParamsOf(gen[d])) =>
               gen[c].buf = gen[d].buf

\* One caller has finished a call of two samples while the other is halfway
\* through a call with the same parameters.
C9_Witness ==
    /\ gen["g1"].pc = "done" /\ gen["g2"].pc = "loop"
    /\ GenParamsOf(gen["g1"]) = GenParamsOf(gen["g2"])
    /\ gen["g1"].numSamples = 2 /\ gen["g2"].sampleIdx = 1
    /\ SampleAt(gen["g1"].buf, 0, gen["g1"].bytesPerSample)
         = SampleAt(gen["g2"].buf, 0, gen["g2"].bytesPerSample)

-----------------------------------------------------------------------------
(* The comparators' diagnostics: t is the *testing.T of the call, the       *)
(* sequence of its Errorf records and the sequence of its Logf records.     *)

defaultMaxDiffSamples == 5
lossyLargeDiffPct == 100

NewT == [errors |-> <<>>, logs |-> <<>>]

Errorf(tt, rec) == [tt EXCEPT !.errors = Append(tt.errors, rec)]

Logf(tt, rec) == [tt EXCEPT !.logs = Append(tt.logs, rec)]

\* s[lo:hi] of a byte slice (Go's 0-based half-open range).
Slice(s, lo, hi) == SubSeq(s, lo + 1, hi)

\* The loop condition's first half: idx < min(len(expected), len(actual)) - frameSize
ShowDiffsScans(idx, limit) == idx < limit

\* The loop of ShowDiffs visits idx = 0, frameSize, 2*frameSize, ... while
\* its condition holds, and shown counts the frames it has logged: it logs the
\* first maxDiffs differing frames among those it visits. ShowDiffsFrames is
\* the records logged for the frames lo..hi-1, computed by halving the range
\* so that the evaluation stays shallow on long buffers.
RECURSIVE ShowDiffsFrames(_, _, _, _, _, _, _, _)
ShowDiffsFrames(lo, hi, label, expected, actual, frameSize, limit, maxDiffs) ==
    IF hi <= lo \/ maxDiffs <= 0 THEN <<>>
    ELSE IF hi = lo + 1
    THEN LET idx == lo * frameSize
             visited == ShowDiffsScans(idx, limit)
             expectedFrame == Slice(expected, idx, idx + frameSize)
             actualFrame == Slice(actual, idx, idx + frameSize)
             sampleIdx == idx \div frameSize
         IN  IF visited /\ expectedFrame # actualFrame
             THEN <<[msg |-> "sample", label |-> label, sampleIdx |-> sampleIdx,
                     expected |-> expectedFrame, actual |-> actualFrame]>>
             ELSE <<>>
    ELSE LET mid == (lo + hi) \div 2
             left == ShowDiffsFrames(lo, mid, label, expected, actual, frameSize,
                                     limit, maxDiffs)
         IN  IF Len(left) >= maxDiffs THEN SubSeq(left, 1, maxDiffs)
             ELSE left \o ShowDiffsFrames(mid, hi, label, expected, actual,
                                          frameSize, limit, maxDiffs - Len(left))

\* ShowDiffs, for frameSize >= 1: the *testing.T after the call.
ShowDiffs(tt, label, expected, actual, bitDepth, channels, maxDiffs) ==
    LET bytesPerSample == PCMBytesPerSample(bitDepth)
        frameSize == bytesPerSample * channels
        common == Min(Len(expected), Len(actual))
    IN  [tt EXCEPT !.logs =
            tt.logs \o ShowDiffsFrames(0, (common \div frameSize) + 1, label,
                                       expected, actual, frameSize,
                                       common - frameSize, maxDiffs)]

LastDiff(firstDiff, idx) == idx

\* if firstDiff == -1 { firstDiff = idx }
FirstDiff(firstDiff, idx) == IF firstDiff = -1 THEN idx ELSE firstDiff

\* The loop of CompareLosslessSamples; st is idx, differences and firstDiff.
RECURSIVE LosslessLoop(_, _, _, _)
LosslessLoop(st, expected, actual, minLen) ==
    IF st.idx >= minLen THEN st
    ELSE LosslessLoop(
             IF expected[st.idx + 1] # actual[st.idx + 1]
             THEN [idx |-> st.idx + 1, differences |-> st.differences + 1,
                   firstDiff |-> FirstDiff(st.firstDiff, st.idx)]
             ELSE [st EXCEPT !.idx = st.idx + 1],
             expected, actual, minLen)

\* CompareLosslessSamples, for bytesPerSample >= 1 and channels >= 1: the
\* *testing.T after the call and the locals at return. The message's
\* percentage is kept as the two integers it is formatted from.
CompareLosslessSamples(tt, label, expected, actual, bitDepth, channels) ==
    LET minLen == Min(Len(expected), Len(actual))
        st == LosslessLoop([idx |-> 0, differences |-> 0, firstDiff |-> -1],
                           expected, actual, minLen)
        bytesPerSample == PCMBytesPerSample(bitDepth)
        sampleIndex == (st.firstDiff \div bytesPerSample) \div channels
        failed == Errorf(tt, [msg |-> "PCM mismatch", label |-> label,
                              differences |-> st.differences,
                              percentOf |-> <<st.differences, minLen>>,
                              firstDiff |-> st.firstDiff,
                              sampleIndex |-> sampleIndex])
    IN  [t |-> IF st.differences > 0
               THEN ShowDiffs(failed, label, expected, actual, bitDepth, channels,
                              defaultMaxDiffSamples)
               ELSE tt,
         locals |-> [minLen |-> minLen, differences |-> st.differences,
                     firstDiff |-> st.firstDiff]]

-----------------------------------------------------------------------------
(* Calls of CompareLosslessSamples and of ShowDiffs: the arguments are      *)
(* drawn when the call is set up, the action is the whole call.            *)

CmpBytes == {0, 255}

ByteSeqs(n) == UNION {[1..k -> CmpBytes] : k \in 0..n}

CmpDepths == {BitDepth8, BitDepth16}

NoGen == gen = <<>>

InitLossless ==
    /\ NoGen
    /\ pc = "ready"
    /\ args \in [expected : ByteSeqs(MaxLen), actual : ByteSeqs(MaxLen),
                 bitDepth : CmpDepths, channels : 1..MaxChannels]
    /\ t = NewT
    /\ out = <<>>

CallCompareLossless ==
    /\ pc = "ready"
    /\ LET r == CompareLosslessSamples(t, "lossless", args.expected, args.actual,
                                       args.bitDepth, args.channels)
       IN  t' = r.t /\ out' = r.locals
    /\ pc' = "done"
    /\ UNCHANGED <<gen, args>>

SpecLossless == InitLossless /\ [][CallCompareLossless]_vars

InitShowDiffs ==
    /\ NoGen
    /\ pc = "ready"
    /\ args \in [expected : ByteSeqs(MaxLen), actual : ByteSeqs(MaxLen),
                 bitDepth : CmpDepths, channels : 1..MaxChannels,
                 maxDiffs : 0..MaxShown]
    /\ t = NewT
    /\ out = <<>>

CallShowDiffs ==
    /\ pc = "ready"
    /\ t' = ShowDiffs(t, "diffs", args.expected, args.actual, args.bitDepth,
                      args.channels, args.maxDiffs)
    /\ pc' = "done"
    /\ UNCHANGED <<gen, args, out>>

SpecShowDiffs == InitShowDiffs /\ [][CallShowDiffs]_vars

\* The frame indices k with (k+1)*F <= L whose F bytes differ.
DifferingFrames(expected, actual, F) ==
    LET L == Min(Len(expected), Len(actual))
    IN  {k \in 0..((L \div F) - 1) :
            Slice(expected, k * F, (k + 1) * F) # Slice(actual, k * F, (k + 1) * F)}

\* The n smallest elements of a set of integers.
Smallest(S, n) == {k \in S : Cardinality({j \in S : j < k}) < n}

\* C2: ShowDiffs reports exactly the first min(maxDiffs, D) differing frames
\* of the common length, the last full frame included, in ascending order,
\* each with its frame index and its bytes of both buffers.
C2_ReportsFirstDifferingFrames ==
    pc = "done" =>
        LET F == StatedBytesPerSample(args.bitDepth) * args.channels
            want == Smallest(DifferingFrames(args.expected, args.actual, F),
                             args.maxDiffs)
        IN  /\ Len(t.logs) = Cardinality(want)
            /\ Len(t.logs) <= args.maxDiffs
            /\ {t.logs[i].sampleIdx : i \in 1..Len(t.logs)} = want
            /\ \A i \in 1..(Len(t.logs) - 1) :
                   t.logs[i].sampleIdx < t.logs[i + 1].sampleIdx
            /\ \A i \in 1..Len(t.logs) :
                   LET k == t.logs[i].sampleIdx
                   IN  /\ t.logs[i].expected = Slice(args.expected, k * F, (k + 1) * F)
                       /\ t.logs[i].actual = Slice(args.actual, k * F, (k + 1) * F)

\* What the loop does report: the differing frames k with (k+1)*F < L, the
\* frame that ends exactly at the common length being left out.
C2_ReportsAllButFrameAtEnd ==
    pc = "done" =>
        LET F == StatedBytesPerSample(args.bitDepth) * args.channels
            L == Min(Len(args.expected), Len(args.actual))
            want == Smallest({k \in DifferingFrames(args.expected, args.actual, F) :
                                 (k + 1) * F < L}, args.maxDiffs)
        IN  /\ Len(t.logs) = Cardinality(want)
            /\ {t.logs[i].sampleIdx : i \in 1..Len(t.logs)} = want

\* The byte offsets below the common length at which the buffers differ.
DifferingBytes(expected, actual) ==
    {i \in 0..(Min(Len(expected), Len(actual)) - 1) : expected[i + 1] # actual[i + 1]}

SetMin(S) == CHOOSE k \in S : \A j \in S : k <= j

\* C3: CompareLosslessSamples reports a failure exactly when the buffers
\* differ at some offset below the shorter length; the failure then gives the
\* number of differing offsets and the smallest of them. With no such offset
\* (identical buffers, or a common prefix and different lengths, an empty
\* buffer included) nothing is reported.
C3_LosslessFailsIffBytesDiffer ==
    pc = "done" =>
        LET D == DifferingBytes(args.expected, args.actual)
        IN  /\ (t.errors # <<>>) <=> (D # {})
            /\ D # {} =>
                 /\ Len(t.errors) = 1
                 /\ t.errors[1].differences = Cardinality(D)
                 /\ t.errors[1].firstDiff = SetMin(D)
            /\ D = {} => t = NewT

\* A copy with one flipped byte at offset 2 is reported as one differing byte
\* at offset 2.
C3_Witness ==
    /\ pc = "done"
    /\ Len(args.expected) = 4 /\ Len(args.actual) = 4
    /\ DifferingBytes(args.expected, args.actual) = {2}
    /\ Len(t.errors) = 1
    /\ t.errors[1].differences = 1 /\ t.errors[1].firstDiff = 2

-----------------------------------------------------------------------------
(* CompareLossySamples.                                                    *)

samplesPerFrame == 1152
maxDiffPerSample == 2

\* binary.LittleEndian.Uint16(pcm[off:])
Uint16At(pcm, off) == pcm[off + 1] + 256 * pcm[off + 2]

\* int16(u) of a uint16 u: the same 16 bits, read as two's complement.
Int16(u) == IF u >= 32768 THEN u - 65536 ELSE u

\* The int16 a Go int16 operation yields for the mathematical result x.
WrapInt16(x) == ((x + 32768) % 65536) - 32768

\* diff := sampleA - sampleB; if diff < 0 { diff = -diff }, all in int16.
AbsDiff16(sampleA, sampleB) ==
    LET diff == WrapInt16(sampleA - sampleB)
    IN  IF diff < 0 THEN WrapInt16(0 - diff) ELSE diff

RejectsBelow16(bitDepth) == bitDepth < BitDepth16

\* if bitDepth != BitDepth16
UnsupportedBitDepth(bitDepth) == bitDepth # BitDepth16

LengthDiffReaches(lengthDiff, maxLengthDiffBytes) == lengthDiff >= maxLengthDiffBytes

\* if lengthDiff > maxLengthDiffBytes
LengthDiffExceeds(lengthDiff, maxLengthDiffBytes) == lengthDiff > maxLengthDiffBytes

LargeDiffsReach(largeDiffs, maxLargeDiffs) == largeDiffs >= maxLargeDiffs

\* if largeDiffs > maxLargeDiffs
LargeDiffsExceed(largeDiffs, maxLargeDiffs) == largeDiffs > maxLargeDiffs

\* The loop over the samples idx = lo..hi-1: how many of them differ by more
\* than maxDiffPerSample (largeDiffs) and the largest diff (maxDiff, from
\* int16(0)). Both accumulate sample by sample in any grouping, so the range
\* is halved to keep the evaluation shallow on long buffers.
RECURSIVE LossyLoop(_, _, _, _)
LossyLoop(lo, hi, pcmA, pcmB) ==
    IF hi <= lo THEN [largeDiffs |-> 0, maxDiff |-> 0]
    ELSE IF hi = lo + 1
    THEN LET sampleA == Int16(Uint16At(pcmA, lo * 2))
             sampleB == Int16(Uint16At(pcmB, lo * 2))
             diff == AbsDiff16(sampleA, sampleB)
         IN  [largeDiffs |-> IF diff > maxDiffPerSample THEN 1 ELSE 0,
              maxDiff |-> IF diff > 0 THEN diff ELSE 0]
    ELSE LET mid == (lo + hi) \div 2
             l == LossyLoop(lo, mid, pcmA, pcmB)
             r == LossyLoop(mid, hi, pcmA, pcmB)
         IN  [largeDiffs |-> l.largeDiffs + r.largeDiffs,
              maxDiff |-> IF r.maxDiff > l.maxDiff THEN r.maxDiff ELSE l.maxDiff]

\* The locals of a call that returned at `stage`; -1 for a local the call
\* never assigned.
LossyLocals(stage, lengthDiff, maxLengthDiffBytes, numSamples, largeDiffs, maxDiff) ==
    [stage |-> stage, lengthDiff |-> lengthDiff,
     maxLengthDiffBytes |-> maxLengthDiffBytes, numSamples |-> numSamples,
     largeDiffs |-> largeDiffs, maxDiff |-> maxDiff]

\* CompareLossySamples, for channels >= 1: the *testing.T after the call and
\* the locals at return. The message's percentage is kept as the two
\* integers it is formatted from.
CompareLossySamples(tt, pcmA, pcmB, bitDepth, channels) ==
    LET maxLengthDiffBytes == samplesPerFrame * channels * 2
        signedDiff == Len(pcmA) - Len(pcmB)
        lengthDiff == IF signedDiff < 0 THEN 0 - signedDiff ELSE signedDiff
        numSamples == Min(Len(pcmA), Len(pcmB)) \div 2
        st == LossyLoop(0, numSamples, pcmA, pcmB)
        maxLargeDiffs == numSamples \div lossyLargeDiffPct
        logged == IF lengthDiff > 0
                  THEN Logf(tt, [msg |-> "length diff", a |-> Len(pcmA),
                                 b |-> Len(pcmB), diff |-> lengthDiff])
                  ELSE tt
        failed == Errorf(logged, [msg |-> "lossy PCM mismatch",
                                  largeDiffs |-> st.largeDiffs,
                                  percentOf |-> <<st.largeDiffs, numSamples>>,
                                  maxDiffPerSample |-> maxDiffPerSample,
                                  maxDiff |-> st.maxDiff])
    IN  IF UnsupportedBitDepth(bitDepth)
        THEN [t |-> Errorf(tt, [msg |-> "lossy comparison only supports 16-bit",
                                bitDepth |-> bitDepth]),
              locals |-> LossyLocals("rejected", -1, -1, -1, -1, -1)]
        ELSE IF LengthDiffExceeds(lengthDiff, maxLengthDiffBytes)
        THEN [t |-> Errorf(tt, [msg |-> "length mismatch", a |-> Len(pcmA),
                                b |-> Len(pcmB), diff |-> lengthDiff,
                                tolerance |-> maxLengthDiffBytes]),
              locals |-> LossyLocals("length mismatch", lengthDiff,
                                     maxLengthDiffBytes, -1, -1, -1)]
        ELSE [t |-> IF LargeDiffsExceed(st.largeDiffs, maxLargeDiffs)
                    THEN ShowDiffs(failed, "lossy comparison", pcmA, pcmB, bitDepth,
                                   channels, defaultMaxDiffSamples)
                    ELSE logged,
              locals |-> LossyLocals("compared", lengthDiff, maxLengthDiffBytes,
                                     numSamples, st.largeDiffs, st.maxDiff)]

-----------------------------------------------------------------------------
(* Calls of CompareLossySamples. The buffers are drawn from three families: *)
(* short buffers of extreme and small samples, buffers of about a hundred   *)
(* samples and more with a few samples off by 3, and buffers whose lengths  *)
(* differ by about one decode frame.                                        *)

\* The little-endian 16-bit buffer of a sequence of samples.
EncodeSamples(samples) ==
    SubSeq([i \in 1..(2 * Len(samples)) |->
               LET v == samples[(i + 1) \div 2]
               IN  IF i % 2 = 1 THEN v % 256 ELSE (v \div 256) % 256],
           1, 2 * Len(samples))

SampleVals == {-32768, 0, 32767}

SampleSeqs == UNION {[1..k -> SampleVals] : k \in 0..MaxSamples}

ExtremeBuffers ==
    {[pcmA |-> EncodeSamples(a), pcmB |-> EncodeSamples(b)] : a, b \in SampleSeqs}

BaseSample(i) == ((i * 37) % 201) - 100

\* n samples; the second buffer is off by 3 in its first k samples and by
\* small in the others.
OffByThree(n, k, small) ==
    [pcmA |-> EncodeSamples([i \in 1..n |-> BaseSample(i)]),
     pcmB |-> EncodeSamples([i \in 1..n |->
                                BaseSample(i) + (IF i <= k THEN 3 ELSE small)])]

SampleCounts == {q * lossyLargeDiffPct + r : q \in 0..MaxBlocks, r \in {0, 1, 99}}

ThresholdBuffers ==
    {OffByThree(n, k, small) :
        n \in SampleCounts, k \in 0..MaxLarge, small \in {0, 2}}

PatternBytes(n) == SubSeq([i \in 1..n |-> (i * 7) % 256], 1, n)

\* Buffers that agree on their common length and differ in length by delta.
LengthBuffers(channels) ==
    LET tol == samplesPerFrame * channels * 2
    IN  UNION {{[pcmA |-> PatternBytes(short), pcmB |-> PatternBytes(short + delta)],
                [pcmA |-> PatternBytes(short + delta), pcmB |-> PatternBytes(short)]} :
                  short \in 0..MaxShort,
                  delta \in {0, 1, tol - 1, tol, tol + 1, 2 * tol}}

LossyDepths == {BitDepth8, BitDepth16, BitDepth24}

LossyArgs ==
    UNION {{[pcmA |-> b.pcmA, pcmB |-> b.pcmB, bitDepth |-> d, channels |-> c] :
               b \in ExtremeBuffers \cup ThresholdBuffers \cup LengthBuffers(c),
               d \in LossyDepths} : c \in 1..MaxChannels}

InitLossy ==
    /\ NoGen
    /\ pc = "ready"
    /\ args \in LossyArgs
    /\ t = NewT
    /\ out = <<>>

CallCompareLossy ==
    /\ pc = "ready"
    /\ LET r == CompareLossySamples(t, args.pcmA, args.pcmB, args.bitDepth,
                                    args.channels)
       IN  t' = r.t /\ out' = r.locals
    /\ pc' = "done"
    /\ UNCHANGED <<gen, args>>

SpecLossy == InitLossy /\ [][CallCompareLossy]_vars

\* The samples the call compares, floor(min(len(pcmA), len(pcmB)) / 2) of
\* them, and the mathematical difference of the two at index i.
ComparedSamples == Min(Len(args.pcmA), Len(args.pcmB)) \div 2

SampleDiff(i) ==
    LET d == DecodeSignedLE(SampleAt(args.pcmA, i, 2))
               - DecodeSignedLE(SampleAt(args.pcmB, i, 2))
    IN  IF d < 0 THEN 0 - d ELSE d

HasError(msg) == \E i \in 1..Len(t.errors) : t.errors[i].msg = msg

Compared == pc = "done" /\ out.stage = "compared"

\* C1: with bitDepth 16 and a passing length check, the samples counted as
\* large diffs are exactly those whose mathematical difference |a - b|
\* exceeds 2, pairs of opposite sign more than 32767 apart included.
C1_LargeDiffIffDifferenceAbove2 ==
    Compared =>
        out.largeDiffs
            = Cardinality({i \in 0..(ComparedSamples - 1) : SampleDiff(i) > 2})

\* What the int16 arithmetic does count: the samples whose difference is
\* above 2 and is neither 32768 nor above 65533.
C1_LargeDiffUnlessWrapped ==
    Compared =>
        out.largeDiffs
            = Cardinality({i \in 0..(ComparedSamples - 1) :
                              /\ SampleDiff(i) > 2
                              /\ SampleDiff(i) # 32768
                              /\ SampleDiff(i) <= 65533})

\* C4: with N samples compared and K of them counted as large diffs, the
\* mismatch failure is reported exactly when 100*K > N. Buffers that differ
\* by at most 2 everywhere pass, buffers off by 3 in more than 1% of the
\* samples fail, buffers off by 3 in fewer than 1% and equal elsewhere pass,
\* and N = 0 passes.
C4_FailsIffMoreThanOnePercent ==
    Compared =>
        LET N == out.numSamples
            K == out.largeDiffs
            by3 == Cardinality({i \in 0..(N - 1) : SampleDiff(i) = 3})
        IN  /\ N = ComparedSamples
            /\ HasError("lossy PCM mismatch") <=> (100 * K > N)
            /\ Len(t.errors) = (IF 100 * K > N THEN 1 ELSE 0)
            /\ (\A i \in 0..(N - 1) : SampleDiff(i) <= 2) => t.errors = <<>>
            /\ 100 * by3 > N => HasError("lossy PCM mismatch")
            /\ (100 * by3 < N /\ \A i \in 0..(N - 1) : SampleDiff(i) \in {0, 3})
                 => t.errors = <<>>
            /\ N = 0 => t.errors = <<>>

\* 100 samples of which exactly one is a large diff: exactly 1%, which passes.
C4_Witness ==
    /\ Compared
    /\ out.numSamples = 100 /\ out.largeDiffs = 1
    /\ SampleDiff(0) = 3
    /\ t.errors = <<>>

\* C5: with bitDepth 16 the length-mismatch failure is reported exactly when
\* |len(pcmA) - len(pcmB)| > 1152 * channels * 2, and then nothing is
\* compared; up to that difference the samples of the common length are
\* compared, and a tolerated non-zero difference is logged and fails nothing
\* by itself.
C5_LengthCheck ==
    (pc = "done" /\ args.bitDepth = 16) =>
        LET signed == Len(args.pcmA) - Len(args.pcmB)
            d == IF signed < 0 THEN 0 - signed ELSE signed
            tol == 1152 * args.channels * 2
        IN  /\ HasError("length mismatch") <=> (d > tol)
            /\ d > tol =>
                 /\ out.stage = "length mismatch"
                 /\ Len(t.errors) = 1 /\ t.logs = <<>>
                 /\ out.numSamples = -1 /\ out.largeDiffs = -1
            /\ d <= tol =>
                 /\ out.stage = "compared"
                 /\ out.numSamples = ComparedSamples
            /\ (d > 0 /\ d <= tol /\ out.largeDiffs = 0) =>
                 /\ t.errors = <<>>
                 /\ Len(t.logs) = 1 /\ t.logs[1].msg = "length diff"

\* Stereo buffers 4608 bytes apart in length pass the length check and are
\* compared over their common length.
C5_Witness ==
    /\ Compared
    /\ args.bitDepth = 16 /\ args.channels = 2
    /\ Len(args.pcmB) - Len(args.pcmA) = 4608
    /\ out.numSamples = 1
    /\ t.errors = <<>> /\ Len(t.logs) = 1

\* C6: with any bitDepth other than 16 exactly one failure is reported, the
\* unsupported-depth one, and the call returns before the length check and
\* before any sample is read; with bitDepth 16 that failure is not reported.
C6_RejectsNon16Bit ==
    pc = "done" =>
        /\ args.bitDepth # 16 =>
             /\ Len(t.errors) = 1
             /\ t.errors[1].msg = "lossy comparison only supports 16-bit"
             /\ t.errors[1].bitDepth = args.bitDepth
             /\ t.logs = <<>>
             /\ out = LossyLocals("rejected", -1, -1, -1, -1, -1)
        /\ args.bitDepth = 16 =>
             /\ ~HasError("lossy comparison only supports 16-bit")
             /\ out.stage # "rejected"

\* A 24-bit request on buffers more than a frame apart in length: one
\* failure, the unsupported-depth one.
C6_Witness ==
    /\ pc = "done" /\ args.bitDepth = 24
    /\ Len(args.pcmA) - Len(args.pcmB) > 1152 * args.channels * 2
    /\ Len(t.errors) = 1 /\ out.stage = "rejected"

-----------------------------------------------------------------------------
(* MonoToStereo.                                                           *)

\* copy(dst[off:], src): min(len(dst) - off, len(src)) bytes are copied.
CopyAt(dst, off, src) ==
    LET n == Min(Len(dst) - off, Len(src))
    IN  SubSeq(dst, 1, off) \o SubSeq(src, 1, n) \o SubSeq(dst, off + n + 1, Len(dst))

\* stereo[idx*bps*2:]
LeftOffset(idx, bps) == idx * bps * 2

RightOffsetByOne(idx, bps) == idx * bps * 2 + 1

\* stereo[idx*bps*2+bps:]
RightOffset(idx, bps) == idx * bps * 2 + bps

\* The loop of MonoToStereo; st is idx and the two buffers.
RECURSIVE MonoToStereoLoop(_, _, _)
MonoToStereoLoop(st, bps, numSamples) ==
    IF st.idx >= numSamples THEN st
    ELSE LET sample == Slice(st.mono, st.idx * bps, (st.idx + 1) * bps)
             left == CopyAt(st.stereo, LeftOffset(st.idx, bps), sample)
             both == CopyAt(left, RightOffset(st.idx, bps), sample)
         IN  MonoToStereoLoop([st EXCEPT !.idx = st.idx + 1, !.stereo = both],
                              bps, numSamples)

\* MonoToStereo, for bps >= 1: the returned buffer, and the argument's bytes
\* after the call.
MonoToStereo(mono, bitDepth) ==
    LET bps == PCMBytesPerSample(bitDepth)
        numSamples == Len(mono) \div bps
        st == MonoToStereoLoop([idx |-> 0, mono |-> mono,
                                stereo |-> MakeBytes(numSamples * bps * 2)],
                               bps, numSamples)
    IN  [stereo |-> st.stereo, mono |-> st.mono]

MonoBytes == {1, 254}

InitMono ==
    /\ NoGen
    /\ pc = "ready"
    /\ args \in [mono : UNION {[1..k -> MonoBytes] : k \in 0..MaxMonoLen},
                 bitDepth : EnumeratedDepths]
    /\ t = NewT
    /\ out = <<>>

CallMonoToStereo ==
    /\ pc = "ready"
    /\ out' = MonoToStereo(args.mono, args.bitDepth)
    /\ pc' = "done"
    /\ UNCHANGED <<gen, args, t>>

SpecMono == InitMono /\ [][CallMonoToStereo]_vars

\* C10: for a mono buffer of N whole samples of b bytes, the result has
\* 2*N*b bytes, its left and right samples of frame i both equal mono sample
\* i byte for byte, and the mono buffer is as it was.
C10_MonoToStereoDuplicates ==
    LET b == StatedBytesPerSample(args.bitDepth)
        N == Len(args.mono) \div b
    IN  (pc = "done" /\ Len(args.mono) = N * b) =>
            /\ Len(out.stereo) = 2 * N * b
            /\ \A i \in 0..(N - 1) :
                   /\ Slice(out.stereo, 2 * i * b, 2 * i * b + b)
                        = Slice(args.mono, i * b, (i + 1) * b)
                   /\ Slice(out.stereo, 2 * i * b + b, 2 * i * b + 2 * b)
                        = Slice(args.mono, i * b, (i + 1) * b)
            /\ out.mono = args.mono

\* Two 24-bit samples, of bytes that tell their order, expanded to 12 bytes.
C10_Witness ==
    /\ pc = "done" /\ args.bitDepth = 24
    /\ args.mono = <<1, 254, 254, 254, 1, 1>>
    /\ out.stereo = <<1, 254, 254, 1, 254, 254, 254, 1, 1, 254, 1, 1>>

-----------------------------------------------------------------------------
(* GenerateWhiteNoise at bit depths the switch does not enumerate.         *)

\* Non-negative depths in the default case of both switches: below one
\* byte, between and next to the enumerated depths, and above them.
OtherBitDepths == {0, 1, 7, 9, 15, 17, 23, 28, 33, 64}

OtherParams ==
    [sampleRate : 0..MaxRate, bitDepth : OtherBitDepths,
     channels : 0..MaxChannels, durationSec : 0..MaxDuration]

NextGenOther == GenCall("g1", OtherParams) \/ GenStep("g1") \/ GenReturn("g1")

SpecGenOther == InitGen /\ [][NextGenOther]_vars

\* C11: at a bit depth outside {4, 8, 12, 16, 20, 24, 32} the call never
\* fails (no store leaves the buffer), its buffer has
\* sampleRate * durationSec * channels * floor(bitDepth / 8) bytes, every
\* byte of it is zero while the loop runs and when it returns, and below
\* 8 bits the buffer is empty.
C11_UnsupportedDepthLeavesZeros ==
    \A c \in DOMAIN gen :
        LET g == gen[c]
        IN  /\ g.pc # "panic"
            /\ Active(g) =>
                 /\ g.bitDepth \notin {4, 8, 12, 16, 20, 24, 32}
                 /\ Len(g.buf) = g.sampleRate * g.durationSec * g.channels
                                     * (g.bitDepth \div 8)
                 /\ \A i \in 1..Len(g.buf) : g.buf[i] = 0
                 /\ (g.bitDepth < 8) => (g.buf = <<>>)

\* A finished call of several samples at 17 bits (two bytes per sample), all
\* of whose loop iterations have run.
C11_Witness ==
    \E c \in DOMAIN gen :
        LET g == gen[c]
        IN  /\ g.pc = "done" /\ g.bitDepth = 17
            /\ g.numSamples >= 2 /\ g.sampleIdx = g.numSamples
            /\ g.seed # SeedBits
            /\ Len(g.buf) = 2 * g.numSamples
            /\ \A i \in 1..Len(g.buf) : g.buf[i] = 0

-----------------------------------------------------------------------------
(* The generator's sequence across parameter tuples.                       *)

\* x ^= x << 13; x ^= x >> 7; x ^= x << 17 on 64 bits, as stated.
StatedXorshift(x) ==
    LET a == Bits64(Xor(x, Shl(x, 13)))
        b == Bits64(Xor(a, Shr(a, 7)))
    IN  Bits64(Xor(b, Shl(b, 17)))

\* The state after k advances from the seed 0x12345678.
RECURSIVE StatedStateAfter(_)
StatedStateAfter(k) ==
    IF k = 0 THEN U64(305419896) ELSE StatedXorshift(StatedStateAfter(k - 1))

SampleCount(g) == g.sampleRate * g.durationSec * g.channels

\* C12: after k sample positions the single generator state is the seed
\* advanced exactly k times, a finished call has run once per position, and
\* position k holds the same bytes in any two calls of the same enumerated
\* bit depth whatever their rate, duration and channels: of two finished
\* calls with sample counts n <= m, the n-sample buffer is a byte-for-byte
\* prefix of the m-sample buffer.
C12_PrefixAcrossParameters ==
    /\ \A c \in DOMAIN gen :
           LET g == gen[c]
           IN  /\ Active(g) => g.seed = StatedStateAfter(g.sampleIdx)
               /\ g.pc = "done" => g.sampleIdx = SampleCount(g)
    /\ \A c, d \in DOMAIN gen :
           LET g == gen[c]
               h == gen[d]
               b == StatedBytesPerSample(g.bitDepth)
           IN  (Active(g) /\ Active(h) /\ g.bitDepth = h.bitDepth) =>
                 /\ \A k \in 0..(Min(g.sampleIdx, h.sampleIdx) - 1) :
                        SampleAt(g.buf, k, b) = SampleAt(h.buf, k, b)
                 /\ (g.pc = "done" /\ h.pc = "done"
                        /\ SampleCount(g) <= SampleCount(h)) =>
                      /\ Len(g.buf) = SampleCount(g) * b
                      /\ g.buf = SubSeq(h.buf, 1, Len(g.buf))

\* One channel for two seconds and two channels for one second at the same
\* rate and depth, both finished, whose two positions hold different samples.
C12_Witness ==
    /\ gen["g1"].pc = "done" /\ gen["g2"].pc = "done"
    /\ gen["g1"].bitDepth = 16 /\ gen["g2"].bitDepth = 16
    /\ gen["g1"].sampleRate = 1 /\ gen["g2"].sampleRate = 1
    /\ gen["g1"].channels = 1 /\ gen["g1"].durationSec = 2
    /\ gen["g2"].channels = 2 /\ gen["g2"].durationSec = 1
    /\ gen["g1"].buf = gen["g2"].buf
    /\ SampleAt(gen["g2"].buf, 0, 2) # SampleAt(gen["g2"].buf, 1, 2)

=============================================================================
